---- MODULE Spec2Model ----
(***************************************************************************)
(* The Account helper of avail-js (src/avail-js/src/sdk/account.ts), the   *)
(* transaction layer and node it delegates to, and the binary build script *)
(* (src/scripts/binaries/x86_64/debian-12.Dockerfile, lines 25-70).        *)
(*                                                                         *)
(* The transaction layer (sdk.tx) and the node are not among the source    *)
(* files; they are modelled from sections 4.3, 5 and 8 of the              *)
(* specification and are marked so where they are defined.                 *)
(***************************************************************************)
EXTENDS Integers, Sequences, FiniteSets, TLC

(* ------------------------------ bounds -------------------------------- *)

\* Spec, LiveSpec (the Account with the transaction layer and the node):
\* operations invoked in one behaviour, and calls the caller makes in one
\* behaviour, setter calls and operations together.
MaxOps == 1

MaxCalls == 2

\* FacadeSpec (the Account alone): the same two bounds.
MaxFacadeOps == 2

MaxFacadeCalls == 4

\* RaceSpec (operations racing through the transaction layer and the node,
\* no setter called): operations invoked in one behaviour.
MaxRaceOps == 2

\* Numbers a caller passes to setNonce / setAppId / setTip: 0..MaxValue.
MaxValue == 1

(* ------------------------------ values -------------------------------- *)

\* account.ts:19-21  `number | null`, `BN | null`: null is encoded as -1,
\* outside the numbers 0..MaxValue.
Null == -1

Values == 0..MaxValue

MaybeValues == Values \cup {Null}

\* The WaitFor enumeration (imported at account.ts:3; BlockInclusion is the
\* initial value at account.ts:18).
BlockInclusion == "BlockInclusion"

BlockFinalization == "BlockFinalization"

WaitFor == {BlockInclusion, BlockFinalization}

\* Two Account instances constructed over the same keypair.
Accounts == {"acc1", "acc2"}

VARIABLES
    waitFor,    \* Account.waitFor,  per instance          account.ts:18
    nonce,      \* Account.nonce,    per instance          account.ts:19
    appId,      \* Account.appId,    per instance          account.ts:20
    tip,        \* Account.tip,      per instance          account.ts:21
    lastSet,    \* history: the argument of the latest setter call, per field
    setCalls,   \* history: number of setter calls made in the behaviour
    ops,        \* the submissions started so far, in invocation order
    calls,      \* history: per operation, what the caller invoked on which
                \* instance, and the instance's lastSet and fields at that time
    chainNonce, \* node: the keypair's nonce in the runtime state
    height,     \* node: number of blocks produced
    finalized,  \* node: number of blocks finalized
    sh          \* the build script: its position, variables and effects

vars == <<waitFor, nonce, appId, tip, lastSet, setCalls, ops, calls,
          chainNonce, height, finalized, sh>>

acctVars == <<waitFor, nonce, appId, tip>>

nodeVars == <<chainNonce, height, finalized>>

(* ------------------- transaction layer: a submission ------------------ *)

\* An absent optional (no TransactionResult, no TransactionFailed, no hash)
\* is the empty sequence; a present one is a one-element sequence.
Absent == <<>>

\* What a caller may add as a trailing argument to an Account operation, in
\* the way the transaction layer's own methods take per-call options:
\* nothing, per-call transaction options, or a per-call wait policy.
NoExtra == [nonce |-> Null, app_id |-> Null, tip |-> Null, waitFor |-> "none"]

Extras ==
    { NoExtra,
      [nonce |-> MaxValue, app_id |-> MaxValue, tip |-> MaxValue, waitFor |-> "none"],
      [nonce |-> Null, app_id |-> Null, tip |-> Null, waitFor |-> BlockFinalization] }

\* submit(call, keypair, options, waitPolicy) of section 4.3: the submission
\* the transaction layer starts when one of its waited methods is called.
Submission(a, wf, options) ==
    [ acct       |-> a,
      noWait     |-> FALSE,
      waitFor    |-> wf,
      options    |-> options,
      pc         |-> "invoked",
      txNonce    |-> Null,
      status     |-> "none",
      blk        |-> 0,
      dispatchOk |-> TRUE,
      value      |-> Absent,
      error      |-> Absent,
      hash       |-> Absent ]

\* The same for a ...NoWait method, which takes no wait policy.
SubmissionNoWait(a, options) ==
    [ Submission(a, "none", options) EXCEPT !.noWait = TRUE ]

(* ------------------------------ Account ------------------------------- *)

\* The build script before it is started.
ShIdle == [pc |-> "idle"]

\* account.ts:17-26  field initialisers of the Account instances; nothing
\* submitted yet.
AccountInit ==
    /\ waitFor = [a \in Accounts |-> BlockInclusion]
    /\ nonce = [a \in Accounts |-> Null]
    /\ appId = [a \in Accounts |-> Null]
    /\ tip = [a \in Accounts |-> Null]
    /\ lastSet = [a \in Accounts |->
                    [nonce |-> Null, appId |-> Null, tip |-> Null,
                     waitFor |-> BlockInclusion]]
    /\ setCalls = 0
    /\ ops = <<>>
    /\ calls = <<>>
    /\ chainNonce = 0
    /\ height = 0
    /\ finalized = 0

Init ==
    /\ AccountInit
    /\ sh = ShIdle

\* The caller makes one more setter call: field f of instance a, argument v.
NoteSetter(a, f, v) ==
    /\ setCalls' = setCalls + 1
    /\ lastSet' = [lastSet EXCEPT ![a][f] = v]

\* A setNonce that keeps the old nonce when given null.
setNonce_ignoresNull(a, value) ==
    /\ NoteSetter(a, "nonce", value)
    /\ nonce' = [nonce EXCEPT ![a] = IF value = Null THEN nonce[a] ELSE value]
    /\ UNCHANGED <<waitFor, appId, tip, ops, calls, nodeVars, sh>>

\* account.ts:32-34
setNonce(a, value) ==
    /\ NoteSetter(a, "nonce", value)
    /\ nonce' = [nonce EXCEPT ![a] = value]
    /\ UNCHANGED <<waitFor, appId, tip, ops, calls, nodeVars, sh>>

\* account.ts:36-38
setAppId(a, value) ==
    /\ NoteSetter(a, "appId", value)
    /\ appId' = [appId EXCEPT ![a] = value]
    /\ UNCHANGED <<waitFor, nonce, tip, ops, calls, nodeVars, sh>>

\* account.ts:40-42
setTip(a, value) ==
    /\ NoteSetter(a, "tip", value)
    /\ tip' = [tip EXCEPT ![a] = value]
    /\ UNCHANGED <<waitFor, nonce, appId, ops, calls, nodeVars, sh>>

\* A setWaitFor whose write reaches the submissions of the instance that
\* are still in flight (they share the policy instead of holding a copy).
setWaitFor_aliased(a, value) ==
    /\ NoteSetter(a, "waitFor", value)
    /\ waitFor' = [waitFor EXCEPT ![a] = value]
    /\ ops' = [i \in 1..Len(ops) |->
                 IF ops[i].acct = a /\ ~ops[i].noWait /\ ops[i].pc # "returned"
                 THEN [ops[i] EXCEPT !.waitFor = value]
                 ELSE ops[i]]
    /\ UNCHANGED <<nonce, appId, tip, calls, nodeVars, sh>>

\* account.ts:44-46
setWaitFor(a, value) ==
    /\ NoteSetter(a, "waitFor", value)
    /\ waitFor' = [waitFor EXCEPT ![a] = value]
    /\ UNCHANGED <<nonce, appId, tip, ops, calls, nodeVars, sh>>

\* options.<field> = <v> on a TransactionOptions object.
With(options, field, v) ==
    [k \in DOMAIN options \cup {field} |-> IF k = field THEN v ELSE options[k]]

\* A buildOptions that tests `if (this.nonce)` and so on: 0 is left out.
buildOptions_truthy(a) ==
    LET o0 == [k \in {} |-> Null]
        o1 == IF nonce[a] # Null /\ nonce[a] # 0 THEN With(o0, "nonce", nonce[a]) ELSE o0
        o2 == IF appId[a] # Null /\ appId[a] # 0 THEN With(o1, "app_id", appId[a]) ELSE o1
        o3 == IF tip[a] # Null /\ tip[a] # 0 THEN With(o2, "tip", tip[a]) ELSE o2
    IN  o3

\* account.ts:101-116  `!= null` holds of every number, 0 included.
buildOptions(a) ==
    LET o0 == [k \in {} |-> Null]
        o1 == IF nonce[a] # Null THEN With(o0, "nonce", nonce[a]) ELSE o0
        o2 == IF appId[a] # Null THEN With(o1, "app_id", appId[a]) ELSE o1
        o3 == IF tip[a] # Null THEN With(o2, "tip", tip[a]) ELSE o2
    IN  o3

\* The caller invokes an operation of instance a, a ...NoWait one or not,
\* and the operation starts submission s. The arguments of the call that
\* starts s are evaluated here, before the operation's first `await`.
Start(a, noWait, s) ==
    /\ ops' = Append(ops, s)
    /\ calls' = Append(calls, [acct |-> a, noWait |-> noWait, set |-> lastSet[a],
                               stored |-> [nonce |-> nonce[a], appId |-> appId[a],
                                           tip |-> tip[a], waitFor |-> waitFor[a]]])
    /\ UNCHANGED <<acctVars, lastSet, setCalls, nodeVars, sh>>

\* A balanceTransfer that moves the stored nonce on for the next call.
balanceTransfer_advancesNonce(a, extra) ==
    /\ ops' = Append(ops, Submission(a, waitFor[a], buildOptions(a)))
    /\ calls' = Append(calls, [acct |-> a, noWait |-> FALSE, set |-> lastSet[a],
                               stored |-> [nonce |-> nonce[a], appId |-> appId[a],
                                           tip |-> tip[a], waitFor |-> waitFor[a]]])
    /\ nonce' = [nonce EXCEPT ![a] = IF nonce[a] = Null THEN Null ELSE nonce[a] + 1]
    /\ UNCHANGED <<waitFor, appId, tip, lastSet, setCalls, nodeVars, sh>>

\* account.ts:52-54  (dest, value) are the only parameters: extra is dropped.
balanceTransfer(a, extra) ==
    Start(a, FALSE, Submission(a, waitFor[a], buildOptions(a)))

\* A balanceTransferNoWait that calls the waited method with this.waitFor.
balanceTransferNoWait_waits(a, extra) ==
    Start(a, TRUE, Submission(a, waitFor[a], buildOptions(a)))

\* account.ts:56-58
balanceTransferNoWait(a, extra) ==
    Start(a, TRUE, SubmissionNoWait(a, buildOptions(a)))

\* A submitData that passes WaitFor.BlockInclusion instead of this.waitFor.
submitData_inclusionOnly(a, extra) ==
    Start(a, FALSE, Submission(a, BlockInclusion, buildOptions(a)))

\* account.ts:60-62
submitData(a, extra) ==
    Start(a, FALSE, Submission(a, waitFor[a], buildOptions(a)))

\* account.ts:64-66
submitDataNoWait(a, extra) ==
    Start(a, TRUE, SubmissionNoWait(a, buildOptions(a)))

\* A createApplicationKey that takes per-call options and lets them win
\* over the stored ones.
createApplicationKey_merging(a, extra) ==
    LET o0 == buildOptions(a)
        o1 == IF extra.nonce # Null THEN With(o0, "nonce", extra.nonce) ELSE o0
        o2 == IF extra.app_id # Null THEN With(o1, "app_id", extra.app_id) ELSE o1
        o3 == IF extra.tip # Null THEN With(o2, "tip", extra.tip) ELSE o2
        wf == IF extra.waitFor # "none" THEN extra.waitFor ELSE waitFor[a]
    IN  Start(a, FALSE, Submission(a, wf, o3))

\* account.ts:68-70
createApplicationKey(a, extra) ==
    Start(a, FALSE, Submission(a, waitFor[a], buildOptions(a)))

\* account.ts:72-74
createApplicationKeyNoWait(a, extra) ==
    Start(a, TRUE, SubmissionNoWait(a, buildOptions(a)))

\* account.ts:76-79  reads system.account of the keypair's address.
getBalance(a) == UNCHANGED vars

\* account.ts:81-83
getNonceState(a) == UNCHANGED vars

\* account.ts:85-87
getNonceNode(a) == UNCHANGED vars

\* account.ts:89-91
getAppKeys(a) == UNCHANGED vars

\* account.ts:93-95
getAppIds(a) == UNCHANGED vars

(* ------------- transaction layer and node (sections 4.3, 5) ----------- *)

Ids == 1..Len(ops)

\* The transactions in the node's pool.
Ready == {i \in Ids : ops[i].status = "ready"}

\* The nonce the node hands out when the options carry none: the first one
\* from the runtime state's on that no pooled transaction occupies.
NextIndex ==
    CHOOSE n \in chainNonce..(chainNonce + Len(ops)) :
        /\ \A i \in Ready : ops[i].txNonce # n
        /\ \A m \in chainNonce..(n - 1) : \E i \in Ready : ops[i].txNonce = m

\* 4.3 "Signs the call with the keypair and options (nonce/app-id/tip)".
Sign(i) ==
    /\ i \in Ids
    /\ ops[i].pc = "invoked"
    /\ ops' = [ops EXCEPT ![i].pc = "signed",
                          ![i].txNonce = IF "nonce" \in DOMAIN ops[i].options
                                         THEN ops[i].options["nonce"]
                                         ELSE NextIndex]
    /\ UNCHANGED <<acctVars, lastSet, setCalls, calls, nodeVars, sh>>

\* 4.3 "submits to the Connection". The node takes the transaction into its
\* pool unless its nonce is already used (section 8, stale nonce): a waited
\* submission then sees the status Invalid, a no-wait one is rejected.
Submit(i) ==
    /\ i \in Ids
    /\ ops[i].pc = "signed"
    /\ ops' = IF ops[i].txNonce < chainNonce
              THEN [ops EXCEPT ![i].status = "invalid",
                               ![i].pc = IF ops[i].noWait THEN "rejected" ELSE "submitted"]
              ELSE [ops EXCEPT ![i].status = "ready", ![i].pc = "submitted"]
    /\ UNCHANGED <<acctVars, lastSet, setCalls, calls, nodeVars, sh>>

\* A node that includes a pooled transaction whatever its nonce.
Include_noNonceCheck(i, ok) ==
    /\ i \in Ids
    /\ ops[i].status = "ready"
    /\ height' = height + 1
    /\ chainNonce' = chainNonce + 1
    /\ ops' = [ops EXCEPT ![i].status = "inBlock", ![i].blk = height + 1,
                          ![i].dispatchOk = ok]
    /\ UNCHANGED <<acctVars, lastSet, setCalls, calls, finalized, sh>>

\* The node produces a block holding transaction i, whose nonce is the
\* account's next one; its dispatch succeeds or fails (for instance on an
\* underfunded account). Pooled transactions left with a used nonce turn
\* Invalid.
Include(i, ok) ==
    /\ i \in Ids
    /\ ops[i].status = "ready"
    /\ ops[i].txNonce = chainNonce
    /\ height' = height + 1
    /\ chainNonce' = chainNonce + 1
    /\ ops' = [j \in Ids |->
                 IF j = i
                 THEN [ops[j] EXCEPT !.status = "inBlock", !.blk = height + 1,
                                     !.dispatchOk = ok]
                 ELSE IF ops[j].status = "ready" /\ ops[j].txNonce < chainNonce + 1
                 THEN [ops[j] EXCEPT !.status = "invalid"]
                 ELSE ops[j]]
    /\ UNCHANGED <<acctVars, lastSet, setCalls, calls, finalized, sh>>

\* The node finalizes its next block.
Finalize ==
    /\ finalized < height
    /\ finalized' = finalized + 1
    /\ UNCHANGED <<acctVars, lastSet, setCalls, ops, calls, chainNonce, height, sh>>

\* The node drops a pooled transaction.
Drop(i) ==
    /\ i \in Ids
    /\ ops[i].status = "ready"
    /\ ops' = [ops EXCEPT ![i].status = "dropped"]
    /\ UNCHANGED <<acctVars, lastSet, setCalls, calls, nodeVars, sh>>

\* 4.3: the requested inclusion/finalization state of a waited submission.
Reached(s) ==
    /\ s.status = "inBlock"
    /\ s.waitFor = BlockInclusion \/ s.blk <= finalized

\* 4.3: a definitive failure/drop/invalid status.
Failed(s) == s.status \in {"invalid", "dropped"}

\* An outcome that reports a failed dispatch as a success.
Outcome_ignoresDispatch(i, s) ==
    IF Failed(s)
    THEN [s EXCEPT !.error = << [reason |-> s.status, blockHash |-> 0, txHash |-> i] >>]
    ELSE [s EXCEPT !.value = << [blockHash |-> s.blk, txHash |-> i] >>]

\* 4.3: the outcome of a waited submission at its terminal status.
Outcome(i, s) ==
    IF Failed(s)
    THEN [s EXCEPT !.error = << [reason |-> s.status, blockHash |-> 0, txHash |-> i] >>]
    ELSE IF s.dispatchOk
    THEN [s EXCEPT !.value = << [blockHash |-> s.blk, txHash |-> i] >>]
    ELSE [s EXCEPT !.error = << [reason |-> "ExtrinsicFailed", blockHash |-> s.blk,
                                txHash |-> i] >>]

\* 4.3: a waited submission resumes at its terminal status; the Account
\* operation returns what it awaited (account.ts:53, 61, 69).
Resolve(i) ==
    /\ i \in Ids
    /\ ops[i].pc = "submitted"
    /\ ~ops[i].noWait
    /\ Reached(ops[i]) \/ Failed(ops[i])
    /\ ops' = [ops EXCEPT ![i] = [Outcome(i, ops[i]) EXCEPT !.pc = "returned"]]
    /\ UNCHANGED <<acctVars, lastSet, setCalls, calls, nodeVars, sh>>

\* 4.3: a no-wait submission returns the submission hash once the node has
\* taken it; the Account operation returns it (account.ts:57, 65, 73).
ResolveNoWait(i) ==
    /\ i \in Ids
    /\ ops[i].pc = "submitted"
    /\ ops[i].noWait
    /\ ops' = [ops EXCEPT ![i].hash = <<i>>, ![i].pc = "returned"]
    /\ UNCHANGED <<acctVars, lastSet, setCalls, calls, nodeVars, sh>>

(* --------------------------- specifications --------------------------- *)

\* The caller may make another call, and may invoke another operation.
CanCall(maxCalls) == setCalls + Len(ops) < maxCalls

CanInvoke(maxOps, maxCalls) == Len(ops) < maxOps /\ CanCall(maxCalls)

Setters(maxCalls) ==
    \/ \E a \in Accounts, v \in MaybeValues : CanCall(maxCalls) /\ setNonce(a, v)
    \/ \E a \in Accounts, v \in MaybeValues : CanCall(maxCalls) /\ setAppId(a, v)
    \/ \E a \in Accounts, v \in MaybeValues : CanCall(maxCalls) /\ setTip(a, v)
    \/ \E a \in Accounts, v \in WaitFor : CanCall(maxCalls) /\ setWaitFor(a, v)

Operations(maxOps, maxCalls) ==
    \/ \E a \in Accounts, x \in Extras :
          CanInvoke(maxOps, maxCalls) /\ balanceTransfer(a, x)
    \/ \E a \in Accounts, x \in Extras :
          CanInvoke(maxOps, maxCalls) /\ balanceTransferNoWait(a, x)
    \/ \E a \in Accounts, x \in Extras :
          CanInvoke(maxOps, maxCalls) /\ submitData(a, x)
    \/ \E a \in Accounts, x \in Extras :
          CanInvoke(maxOps, maxCalls) /\ submitDataNoWait(a, x)
    \/ \E a \in Accounts, x \in Extras :
          CanInvoke(maxOps, maxCalls) /\ createApplicationKey(a, x)
    \/ \E a \in Accounts, x \in Extras :
          CanInvoke(maxOps, maxCalls) /\ createApplicationKeyNoWait(a, x)

Queries ==
    \/ \E a \in Accounts : getBalance(a)
    \/ \E a \in Accounts : getNonceState(a)
    \/ \E a \in Accounts : getNonceNode(a)
    \/ \E a \in Accounts : getAppKeys(a)
    \/ \E a \in Accounts : getAppIds(a)

TrackerAndNode ==
    \/ \E i \in Ids : Sign(i)
    \/ \E i \in Ids : Submit(i)
    \/ \E i \in Ids, ok \in BOOLEAN : Include(i, ok)
    \/ Finalize
    \/ \E i \in Ids : Drop(i)
    \/ \E i \in Ids : Resolve(i)
    \/ \E i \in Ids : ResolveNoWait(i)

\* The Account instances, the transaction layer and the node.
Next ==
    \/ Setters(MaxCalls)
    \/ Operations(MaxOps, MaxCalls)
    \/ Queries
    \/ TrackerAndNode

Spec == Init /\ [][Next]_vars

\* The Account instances alone: what their operations hand to the
\* transaction layer, which does not run.
FacadeNext ==
    \/ Setters(MaxFacadeCalls)
    \/ Operations(MaxFacadeOps, MaxFacadeCalls)
    \/ Queries

FacadeSpec == Init /\ [][FacadeNext]_vars

\* Account instances given one wait policy and nothing else: the state
\* after setWaitFor(w) on each of them, with no nonce stored.
RaceInit ==
    /\ \E w \in WaitFor :
          /\ waitFor = [a \in Accounts |-> w]
          /\ lastSet = [a \in Accounts |->
                          [nonce |-> Null, appId |-> Null, tip |-> Null,
                           waitFor |-> w]]
    /\ nonce = [a \in Accounts |-> Null]
    /\ appId = [a \in Accounts |-> Null]
    /\ tip = [a \in Accounts |-> Null]
    /\ setCalls = 0
    /\ ops = <<>>
    /\ calls = <<>>
    /\ chainNonce = 0
    /\ height = 0
    /\ finalized = 0
    /\ sh = ShIdle

\* Operations of the instances racing through the transaction layer and the
\* node, with no setter called meanwhile.
RaceNext ==
    \/ Operations(MaxRaceOps, MaxRaceOps)
    \/ TrackerAndNode

RaceSpec == RaceInit /\ [][RaceNext]_vars

(* ------------------ the binary build script (bash) -------------------- *)

\* What the environment may hold for DISTRO, ARCH, ENGINE and ZIP ("" is
\* unset or empty, which ${X:-default} treats alike).
EnvDistro == {"", "debian-12", "bogus"}

EnvArch == {"", "x86_64", "arm64"}

EnvEngine == {"", "docker", "podman"}

EnvZip == {"", "1"}

\* ${X:-default}
OrDefault(x, default) == IF x = "" THEN default ELSE x

\* The script is started: its environment, whether the Dockerfile it will
\* select exists, and what `selinuxenabled` will answer.
ShStart(distro, engine, arch, zip, exists, selinux) ==
    [ pc |-> "select",
      env |-> [DISTRO |-> distro, ENGINE |-> engine, ARCH |-> arch, ZIP |-> zip],
      exists |-> exists, selinux |-> selinux,
      DISTRO |-> "", ENGINE |-> "", ARCH |-> "", DOCKER_FILE |-> <<>>,
      PLATFORM |-> "", out |-> <<>>, cmds |-> <<>> ]

\* debian-12.Dockerfile:27-32
Select ==
    /\ sh.pc = "select"
    /\ LET distro == OrDefault(sh.env.DISTRO, "ubuntu-2204")
           arch == OrDefault(sh.env.ARCH, "x86_64")
       IN  sh' = [sh EXCEPT !.DISTRO = distro,
                            !.ENGINE = OrDefault(sh.env.ENGINE, "docker"),
                            !.ARCH = arch,
                            !.DOCKER_FILE = <<"./scripts/binaries", arch, distro, ".Dockerfile">>,
                            !.pc = "test"]
    /\ UNCHANGED <<acctVars, lastSet, setCalls, ops, calls, nodeVars>>

\* debian-12.Dockerfile:34-40
CheckFile ==
    /\ sh.pc = "test"
    /\ sh' = IF ~sh.exists
             THEN [sh EXCEPT !.out = Append(sh.out, "Unknown option"), !.pc = "exit"]
             ELSE [sh EXCEPT !.pc = "echo"]
    /\ UNCHANGED <<acctVars, lastSet, setCalls, ops, calls, nodeVars>>

\* debian-12.Dockerfile:42-45
EchoSelection ==
    /\ sh.pc = "echo"
    /\ sh' = [sh EXCEPT !.out = Append(sh.out, "Selected"), !.pc = "platform"]
    /\ UNCHANGED <<acctVars, lastSet, setCalls, ops, calls, nodeVars>>

\* debian-12.Dockerfile:47-50  `[ ARCH == "arm64" ]` compares the word ARCH,
\* not the variable $ARCH.
SetPlatform ==
    /\ sh.pc = "platform"
    /\ sh' = [sh EXCEPT !.PLATFORM = IF "ARCH" = "arm64" THEN "arm64" ELSE "amd64",
                        !.pc = "build"]
    /\ UNCHANGED <<acctVars, lastSet, setCalls, ops, calls, nodeVars>>

\* debian-12.Dockerfile:53
BuildImage ==
    /\ sh.pc = "build"
    /\ sh' = [sh EXCEPT !.cmds = Append(sh.cmds,
                            [engine |-> sh.ENGINE, cmd |-> "build",
                             arg |-> sh.PLATFORM, file |-> sh.DOCKER_FILE]),
                        !.pc = "run"]
    /\ UNCHANGED <<acctVars, lastSet, setCalls, ops, calls, nodeVars>>

\* debian-12.Dockerfile:55-62
RunImage ==
    /\ sh.pc = "run"
    /\ sh' = [sh EXCEPT !.cmds = Append(sh.cmds,
                            [engine |-> sh.ENGINE, cmd |-> "run",
                             arg |-> IF sh.selinux THEN "/output:z" ELSE "/output",
                             file |-> <<"./output", sh.ARCH, sh.DISTRO>>]),
                        !.pc = "zip"]
    /\ UNCHANGED <<acctVars, lastSet, setCalls, ops, calls, nodeVars>>

\* debian-12.Dockerfile:65-70
Zip ==
    /\ sh.pc = "zip"
    /\ sh' = IF sh.env.ZIP # ""
             THEN [sh EXCEPT !.out = Append(sh.out, "tar"), !.pc = "exit"]
             ELSE [sh EXCEPT !.pc = "exit"]
    /\ UNCHANGED <<acctVars, lastSet, setCalls, ops, calls, nodeVars>>

BuildInit ==
    /\ AccountInit
    /\ sh \in {ShStart(d, e, a, z, x, l) :
                  d \in EnvDistro, e \in EnvEngine, a \in EnvArch, z \in EnvZip,
                  x \in BOOLEAN, l \in BOOLEAN}

BuildNext ==
    \/ Select
    \/ CheckFile
    \/ EchoSelection
    \/ SetPlatform
    \/ BuildImage
    \/ RunImage
    \/ Zip

BuildSpec == BuildInit /\ [][BuildNext]_vars

\* C10: the image is built for the platform of the selected architecture
\* (arm64 when ARCH is arm64, amd64 otherwise), and when the selected
\* Dockerfile does not exist the script prints the options and stops
\* without building or running an image.
C10_PlatformFollowsArch ==
    /\ \A k \in 1..Len(sh.cmds) :
          sh.cmds[k].cmd = "build" =>
              sh.cmds[k].arg = IF sh.ARCH = "arm64" THEN "arm64" ELSE "amd64"
    /\ (sh.pc \notin {"select", "test"} /\ ~sh.exists) =>
          /\ sh.pc = "exit"
          /\ sh.cmds = <<>>
          /\ sh.out = <<"Unknown option">>

(* ------------------------------ claims -------------------------------- *)

\* The value a submission's options carry for a field; Null when absent.
Passed(s, field) == IF field \in DOMAIN s.options THEN s.options[field] ELSE Null

\* C1, as stated: every operation, the ...NoWait ones included, passes on
\* the nonce, app id, tip and wait policy of the latest setter calls made on
\* its Account before it was invoked (the initial values without any).
C1_LatestSetterValuesAndPolicy ==
    \A i \in Ids :
        /\ Passed(ops[i], "nonce") = calls[i].set.nonce
        /\ Passed(ops[i], "app_id") = calls[i].set.appId
        /\ Passed(ops[i], "tip") = calls[i].set.tip
        /\ ops[i].waitFor = calls[i].set.waitFor

\* C1, amended: every operation passes on the nonce, app id and tip of the
\* latest setter calls made on its Account before it was invoked; the waited
\* operations pass on the wait policy of the latest setWaitFor call as well,
\* and the ...NoWait operations pass on no wait policy.
C1_LatestSetterValues ==
    \A i \in Ids :
        /\ Passed(ops[i], "nonce") = calls[i].set.nonce
        /\ Passed(ops[i], "app_id") = calls[i].set.appId
        /\ Passed(ops[i], "tip") = calls[i].set.tip
        /\ ops[i].waitFor = IF calls[i].noWait THEN "none" ELSE calls[i].set.waitFor

\* C1 witness: after two setter calls on its Account, a waited operation
\* passes on the tip and the wait policy they gave, and a ...NoWait one would
\* pass on no policy.
C1_Witness ==
    \E i \in Ids :
        /\ setCalls = 2
        /\ ~calls[i].noWait
        /\ calls[i].set.waitFor = BlockFinalization
        /\ calls[i].set.tip = MaxValue
        /\ ops[i].waitFor = BlockFinalization
        /\ Passed(ops[i], "tip") = MaxValue

\* C5: the options of an operation hold nonce (app_id, tip) exactly when the
\* stored nonce (app id, tip) is not null, and then with the stored value;
\* 0 is a value like any other.
C5_FieldsPresentIffStored ==
    \A i \in Ids :
        /\ ("nonce" \in DOMAIN ops[i].options) <=> (calls[i].stored.nonce # Null)
        /\ ("app_id" \in DOMAIN ops[i].options) <=> (calls[i].stored.appId # Null)
        /\ ("tip" \in DOMAIN ops[i].options) <=> (calls[i].stored.tip # Null)
        /\ \A f \in DOMAIN ops[i].options : ops[i].options[f] \in Values
        /\ Passed(ops[i], "nonce") = calls[i].stored.nonce
        /\ Passed(ops[i], "app_id") = calls[i].stored.appId
        /\ Passed(ops[i], "tip") = calls[i].stored.tip

\* C5 witness: an operation invoked with the nonce set to 0 passes on
\* nonce 0 and nothing else, and a later operation of the same Account
\* passes on no nonce: setNonce(null) was called between the two.
C5_Witness ==
    \E i, j \in Ids :
        /\ i < j
        /\ calls[i].acct = calls[j].acct
        /\ calls[i].stored.nonce = 0
        /\ DOMAIN ops[i].options = {"nonce"}
        /\ ops[i].options["nonce"] = 0
        /\ calls[j].stored.nonce = Null
        /\ "nonce" \notin DOMAIN ops[j].options

RequestedReached(i) ==
    /\ ops[i].status = "inBlock"
    /\ ops[i].blk \in 1..height
    /\ calls[i].set.waitFor = BlockFinalization => ops[i].blk <= finalized

\* C3: a waited operation has returned only when its transaction was in a
\* block (under BlockFinalization: in a finalized block) or had definitely
\* failed; a success it returned names the block holding the transaction.
C3_ReturnsAtTerminalStatus ==
    \A i \in Ids :
        (~calls[i].noWait /\ ops[i].pc = "returned") =>
            /\ ops[i].value # Absent =>
                  /\ RequestedReached(i)
                  /\ ops[i].value[1].blockHash = ops[i].blk
            /\ ops[i].value = Absent =>
                  \/ ops[i].status \in {"invalid", "dropped"}
                  \/ RequestedReached(i) /\ ~ops[i].dispatchOk

\* C3 witness: an operation invoked under BlockFinalization has returned a
\* success naming the finalized block that holds its transaction.
C3_Witness ==
    \E i \in Ids :
        /\ ops[i].pc = "returned"
        /\ calls[i].set.waitFor = BlockFinalization
        /\ ops[i].value # Absent
        /\ ops[i].value[1].blockHash = finalized
        /\ finalized = height

\* The transaction of submission i has definitely failed.
DefinitelyFailed(i) ==
    \/ ops[i].status \in {"invalid", "dropped"}
    \/ ops[i].status = "inBlock" /\ ~ops[i].dispatchOk

\* C4: a waited operation that has returned holds exactly one of a
\* TransactionResult and a TransactionFailed; when its transaction has
\* definitely failed (dropped, invalid, dispatch error) it holds the
\* TransactionFailed, with a reason that is not empty.
C4_SuccessOrFailure ==
    \A i \in Ids :
        (~calls[i].noWait /\ ops[i].pc = "returned") =>
            /\ Len(ops[i].value) + Len(ops[i].error) = 1
            /\ DefinitelyFailed(i) =>
                  /\ ops[i].value = Absent
                  /\ ops[i].error # Absent
                  /\ ops[i].error[1].reason # ""

\* C4 witness: a waited operation has returned a TransactionFailed for a
\* transaction that was included and whose dispatch failed.
C4_Witness ==
    \E i \in Ids :
        /\ ~calls[i].noWait
        /\ ops[i].pc = "returned"
        /\ ops[i].status = "inBlock"
        /\ ~ops[i].dispatchOk
        /\ ops[i].error # Absent

\* Submissions i and j come from two Account instances with no stored nonce
\* and were signed with the same nonce.
Collide(i, j) ==
    /\ calls[i].acct # calls[j].acct
    /\ calls[i].stored.nonce = Null /\ calls[j].stored.nonce = Null
    /\ ops[i].txNonce # Null
    /\ ops[i].txNonce = ops[j].txNonce

\* C7: of two operations of two Account instances with unset nonces whose
\* transactions carry the same nonce, at most one holds a TransactionResult.
C7_AtMostOneSucceeds ==
    \A i, j \in Ids :
        Collide(i, j) => ~(ops[i].value # Absent /\ ops[j].value # Absent)

\* C7 witness: two such operations have both returned, one with a
\* TransactionResult and the other with a TransactionFailed.
C7_Witness ==
    \E i, j \in Ids :
        /\ Collide(i, j)
        /\ ops[i].pc = "returned" /\ ops[j].pc = "returned"
        /\ ops[i].value # Absent
        /\ ops[j].error # Absent

\* A step of one of the six operations of instance a, called with the
\* trailing argument x.
Waited(a, x) ==
    balanceTransfer(a, x) \/ submitData(a, x) \/ createApplicationKey(a, x)

Unwaited(a, x) ==
    \/ balanceTransferNoWait(a, x)
    \/ submitDataNoWait(a, x)
    \/ createApplicationKeyNoWait(a, x)

\* C6, as stated: an operation submits with the stored defaults merged with
\* what the call itself supplies: a value the call supplies is used, and the
\* stored default otherwise.
C6_OverridesMerged ==
    [][Len(ops') # Len(ops) =>
          LET s == ops'[Len(ops')]
              a == s.acct
          IN  \A x \in Extras :
                /\ Unwaited(a, x) =>
                      /\ Passed(s, "nonce") = IF x.nonce # Null THEN x.nonce ELSE nonce[a]
                      /\ Passed(s, "app_id") = IF x.app_id # Null THEN x.app_id ELSE appId[a]
                      /\ Passed(s, "tip") = IF x.tip # Null THEN x.tip ELSE tip[a]
                /\ Waited(a, x) =>
                      /\ Passed(s, "nonce") = IF x.nonce # Null THEN x.nonce ELSE nonce[a]
                      /\ Passed(s, "app_id") = IF x.app_id # Null THEN x.app_id ELSE appId[a]
                      /\ Passed(s, "tip") = IF x.tip # Null THEN x.tip ELSE tip[a]
                      /\ s.waitFor = IF x.waitFor # "none" THEN x.waitFor ELSE waitFor[a]
      ]_vars

\* C6, amended: an operation takes no call-specific override: it submits
\* with exactly the stored nonce, app id and tip (and, when waited, the
\* stored wait policy), whatever else the caller passes to it.
C6_StoredDefaultsOnly ==
    [][Len(ops') # Len(ops) =>
          LET s == ops'[Len(ops')]
              a == s.acct
          IN  \A x \in Extras :
                /\ Unwaited(a, x) =>
                      /\ Passed(s, "nonce") = nonce[a]
                      /\ Passed(s, "app_id") = appId[a]
                      /\ Passed(s, "tip") = tip[a]
                /\ Waited(a, x) =>
                      /\ Passed(s, "nonce") = nonce[a]
                      /\ Passed(s, "app_id") = appId[a]
                      /\ Passed(s, "tip") = tip[a]
                      /\ s.waitFor = waitFor[a]
      ]_vars

\* C6 witness: an operation was invoked (with every trailing argument of
\* Extras, the overriding ones included, the step is the same) on an Account
\* with a stored tip and no stored nonce, and carries that tip and no nonce.
C6_Witness ==
    \E i \in Ids :
        /\ calls[i].stored.tip = 0
        /\ calls[i].stored.waitFor = BlockInclusion
        /\ DOMAIN ops[i].options = {"tip"}
        /\ ops[i].options["tip"] = 0
        /\ ops[i].waitFor = BlockInclusion

\* C9: a submission holds the options and the wait policy its Account
\* stored when the operation was invoked, in every later state: whatever
\* setter is called on the Account meanwhile, the nonce it is signed with
\* and the policy it returns under are those read at invocation.
C9_ReadAtInvocation ==
    \A i \in Ids :
        /\ ops[i].waitFor = IF calls[i].noWait THEN "none" ELSE calls[i].stored.waitFor
        /\ ops[i].options = [f \in DOMAIN ops[i].options |->
                               CASE f = "nonce" -> calls[i].stored.nonce
                                 [] f = "app_id" -> calls[i].stored.appId
                                 [] f = "tip" -> calls[i].stored.tip]
        /\ (ops[i].txNonce # Null /\ calls[i].stored.nonce # Null)
               => ops[i].txNonce = calls[i].stored.nonce
        /\ (~calls[i].noWait /\ ops[i].pc = "returned" /\ ops[i].value # Absent
               /\ calls[i].stored.waitFor = BlockFinalization)
               => ops[i].blk <= finalized

\* C9 witness: a waited operation invoked under BlockInclusion has returned
\* at inclusion, before finalization, although setWaitFor(BlockFinalization)
\* was called on its Account while it was in flight.
C9_Witness ==
    \E i \in Ids :
        /\ ops[i].waitFor = BlockInclusion
        /\ waitFor[ops[i].acct] = BlockFinalization
        /\ ops[i].pc = "returned"
        /\ ops[i].value # Absent
        /\ ops[i].blk > finalized

(* ---------------------- liveness of the no-wait path ------------------ *)

\* The event loop resumes an operation whose awaited request has been
\* answered, and the connection answers requests; nothing makes the node
\* produce or finalize a block, and nothing makes the caller call.
LiveSpec ==
    /\ Init
    /\ [][Next]_vars
    /\ \A i \in 1..MaxOps :
          /\ WF_vars(Sign(i))
          /\ WF_vars(Submit(i))
          /\ WF_vars(Resolve(i))
          /\ WF_vars(ResolveNoWait(i))

\* The caller invoked operation i as a ...NoWait one and the node has
\* accepted its submission.
NoWaitAccepted(i) ==
    IF i \in Ids THEN calls[i].noWait /\ ops[i].pc = "submitted" ELSE FALSE

\* Operation i has returned the submission hash.
HashReturned(i) ==
    IF i \in Ids THEN ops[i].pc = "returned" /\ ops[i].hash = <<i>> ELSE FALSE

\* C2: a ...NoWait operation whose submission the node has accepted returns
\* the submission hash, whether or not a block is ever produced and whatever
\* wait policy its Account stores.
C2_NoWaitReturns ==
    \A i \in 1..MaxOps : NoWaitAccepted(i) ~> HashReturned(i)

\* C2 witness: a ...NoWait operation of an Account storing BlockFinalization
\* has returned its hash while no block has been produced.
C2_Witness ==
    \E i \in Ids :
        /\ calls[i].noWait
        /\ calls[i].stored.waitFor = BlockFinalization
        /\ ops[i].pc = "returned"
        /\ ops[i].hash = <<i>>
        /\ height = 0

====
